---- MODULE Spec2Model ----
(***************************************************************************)
(* Crawl / enrichment pipeline of the comic archive ingester.              *)
(*                                                                         *)
(*   scraper/main.py        PennyArcadeScraper, main (crawl cycles)        *)
(*   analyzer/main.py       ComicAnalyzer, main.callback (queue consumer)  *)
(*   database/manager.py    DatabaseManager (comics table)                 *)
(*   task_queue/manager.py  QueueManager (analyzer_queue)                  *)
(*   api/app.py             before_request, teardown_request, read route   *)
(*                                                                         *)
(* The publisher site is a chain of issues 1..ChainLen; the URL of issue k *)
(* is modelled by the number k and the "newer" link of page k leads to     *)
(* k + 1.  Network, extraction, OCR and storage outcomes are inputs.       *)
(*                                                                         *)
(* The scraper and the analyzers are separate processes that share only    *)
(* the comics table.  Spec is the scraper process; SpecAnalyzer is the     *)
(* analyzer processes on analyzer_queue, started on a table the scraper    *)
(* has left behind.  Row ids are taken from nextId on a successful insert. *)
(* SpecStorage is DatabaseManager called directly (insert_comic and        *)
(* update_comic with any arguments); SpecExtract is extract_panel_urls and *)
(* extract_comic_metadata on any page of up to MaxPanels panels;           *)
(* SpecFilter is filter_copyright_text on any text.  SpecConsumers is the  *)
(* analyzer processes under KeyboardInterrupt, SpecStartup their startup   *)
(* (SpecStartupFair with every process running on), SpecFair the scraper   *)
(* process running on, and SpecApi the request threads of api/app.py on    *)
(* the DatabaseManager they share.                                         *)
(***************************************************************************)
EXTENDS Integers, Sequences, FiniteSets, TLC

VARIABLES
    rows,       \* the comics table, in date_added (insertion) order
    nextId,     \* next value of the id sequence of the comics table
    pc,         \* scraper process: "idle" (sleeping), "running", "crashed"
    iter,       \* loop index i of run_scraping_cycle (0 or 1)
    queue,      \* analyzer_queue: ready messages, head first
    inflight,   \* per worker: the unacknowledged delivery (a 0/1 sequence)
    alive,      \* per worker: the consumer process is running
    published,  \* number of messages published to analyzer_queue so far
    batch,      \* rows inserted by the crawl cycle that runs or ran last
    html,       \* extractor: the page handed to extract_panel_urls
    panels_data,    \* extractor: what extract_panel_urls returned (0/1 sequence)
    extracted,  \* extractor: what extract_comic_metadata returned
    cleaned_text, \* filter: the text filter_copyright_text works on
    db_conn,    \* per process: its DatabaseManager holds a pool connection
    wpc,        \* per worker: position in main of analyzer/main.py
    retries,    \* per worker: retries of get_rabbitmq_connection while it loops
    hpc,        \* read API, per handler thread: position in the request
    api_conn,   \* read API: self.conn of the shared DatabaseManager
    api_cursor, \* read API: the connection self.cursor belongs to
    pool_used,  \* read API: connections taken from the pool, not put back
    requests,   \* read API: requests accepted so far
    ev          \* what the last step did (outcome log of the step)

vars == <<rows, nextId, pc, iter, queue, inflight, alive, published, batch,
          html, panels_data, extracted, cleaned_text, db_conn, wpc, retries,
          hpc, api_conn, api_cursor, pool_used, requests, ev>>

----------------------------------------------------------------------------
(* Bounds of the model *)

ChainLen == 3       \* issues in the archive chain
MaxPublished == 1   \* messages published to analyzer_queue in one behaviour
MaxTable == 2       \* rows of the table the analyzer processes start on
MaxPanels == 2      \* panel containers of a page handed to the extractor
MaxSrcset == 2      \* entries of the srcset attribute of an <img>
MaxText == 4        \* chunks of a text handed to filter_copyright_text
MaxQueued == 2      \* messages sent to the consumers under interrupts
MaxRequests == 3    \* requests the read API accepts in one behaviour

(* Program constants *)

FirstComicUrl == 1  \* first_comic_url, the bootstrap issue
BatchLimit == 2     \* range(2) in run_scraping_cycle
NoUrl == 0          \* None as a URL (a falsy Optional[str])
NoId == 0           \* None as a comic id (a falsy Optional[int])
MaxRetries == 30    \* max_retries of get_rabbitmq_connection
PrefetchCount == 1  \* basic_qos(prefetch_count=1)
NoConn == 0         \* None as self.conn or self.cursor

Urls == 1..ChainLen
\* the analyzer processes consuming analyzer_queue
Workers == {"w1", "w2"}
\* the threads of the read API that serve requests at the same time
Handlers == {"h1", "h2"}
\* the processes that own a DatabaseManager
Components == {"scraper"} \cup Workers
DbOutcomes == {"ok", "error", "broken"}
    \* ok: the statement ran; error: psycopg2.Error, rolled back;
    \* broken: psycopg2.Error and the rollback in the handler raises too
PanelOutcomes == {"ok", "download_failed", "ocr_failed"}

----------------------------------------------------------------------------
(* The publisher site *)

\* page k carries an <a class="orange-btn newer"> unless k is the newest issue
HasNewer(url) == url < ChainLen

\* href of the newer button, appended to base_url
NewerOf(url) == url + 1

\* number of div.comic-panel of page k
PanelCount(url) == IF url % 2 = 1 THEN 1 ELSE 2

\* the panels of page k that carry an <img>: panel 1 only
PanelsWithImage(url) == {1}

\* an image URL: <<page, panel, kind>>, kind the place it is written in
\* ("src", or the descriptor of its srcset entry)
ImageUrl(page, panel, kind) == <<page, panel, kind>>

EmptyUrl == <<>>    \* the empty string as an image URL

\* an <img>: the srcset attribute as split(',') / split() leaves it (a
\* sequence of token lists) and the src attribute, each a 0/1 sequence
Img(srcset, src) == [srcset |-> srcset, src |-> src]

\* a <div class="comic-panel"> with its <img> as a 0/1 sequence
PanelDiv(img) == [img |-> img]

\* a page: whether it has <div class="comic-area">, the panel containers
\* inside it, and the text of its <p class="details date"> (a 0/1 sequence)
Page(comic_area, panels, date) ==
    [comic_area |-> comic_area, panels |-> panels, date |-> date]

NoHtml == Page(FALSE, <<>>, <<>>)

\* the date labels of the pages of the site
DateOf(url) == "November 18, 1998"

\* the page of issue k
Html(url) ==
    Page(TRUE,
         [i \in 1..PanelCount(url) |->
            IF i \in PanelsWithImage(url)
            THEN PanelDiv(<<Img(<< << <<ImageUrl(url, i, "1x"), "1x">>,
                                      <<ImageUrl(url, i, "2x"), "2x">> >> >>,
                                <<ImageUrl(url, i, "src")>>)>>)
            ELSE PanelDiv(<<>>)],
         <<DateOf(url)>>)

\* mutant: the srcset scan takes the first entry tagged 1x
Srcset1x(sources) ==
    LET hits == {k \in 1..Len(sources) :
                   Len(sources[k]) = 2 /\ sources[k][2] = "1x"}
    IN  IF hits = {} THEN EmptyUrl
        ELSE sources[CHOOSE k \in hits : \A j \in hits : k <= j][1]

\* the scan of the srcset entries: the URL of the first entry of two
\* tokens whose second token is 2x, else panel_url stays ""
Srcset2x(sources) ==
    LET hits == {k \in 1..Len(sources) :
                   Len(sources[k]) = 2 /\ sources[k][2] = "2x"}
    IN  IF hits = {} THEN EmptyUrl
        ELSE sources[CHOOSE k \in hits : \A j \in hits : k <= j][1]

\* panel_url of an <img>: the 2x srcset entry, else the src attribute,
\* else ""
PanelUrl(img) ==
    LET from_srcset == IF img.srcset # <<>> THEN Srcset2x(img.srcset[1])
                       ELSE EmptyUrl
    IN  IF from_srcset = EmptyUrl /\ img.src # <<>> THEN img.src[1]
        ELSE from_srcset

\* extract_panel_urls(html): num_panels and a key panel<i> for each panel
\* that has an <img> with a non-empty panel_url
ExtractPanelUrlsHtml(page) ==
    LET panels == IF page.comic_area THEN page.panels ELSE <<>>
        keys == {i \in 1..Len(panels) :
                   /\ panels[i].img # <<>>
                   /\ PanelUrl(panels[i].img[1]) # EmptyUrl}
    IN  [num_panels |-> Len(panels),
         urls |-> [i \in keys |-> PanelUrl(panels[i].img[1])]]

\* extract_panel_urls on the page of issue k
ExtractPanelUrls(url) == ExtractPanelUrlsHtml(Html(url))

EmptyPanelUrls == [num_panels |-> 0, urls |-> [i \in {} |-> EmptyUrl]]

TitleOf(url) == url

\* datetime.strptime(date_str, '%B %d, %Y') as a 0/1 sequence: the date, or
\* nothing when it raises ValueError
Strptime(date_str) ==
    IF date_str = "November 18, 1998"
    THEN <<[year |-> 1998, month |-> 11, day |-> 18]>>
    ELSE <<>>

\* extract_comic_metadata has not been called
NotExtracted == [called |-> FALSE, value |-> <<>>]

\* what extract_comic_metadata returned: comic_data or None, a 0/1 sequence
Extracted(value) == [called |-> TRUE, value |-> value]

\* extract_comic_metadata(html, url): date_str is the stripped text of the
\* date label or None; a non-empty date_str goes through strptime, whose
\* ValueError lands in the except block, which answers None
ExtractComicMetadataHtml(page, url) ==
    LET date_str == IF page.date = <<>> THEN "" ELSE page.date[1]
    IN  IF date_str # "" /\ Strptime(date_str) = <<>>
        THEN <<>>
        ELSE <<[title |-> TitleOf(url), url |-> url,
                publication_date |-> IF date_str # "" THEN Strptime(date_str)
                                     ELSE <<>>,
                panel_urls |-> ExtractPanelUrlsHtml(page)]>>

----------------------------------------------------------------------------
(* JSON text (json.dumps / json.loads) *)

\* json.dumps(v): a text that json.loads turns back into v
JsonDumps(v) == [valid |-> TRUE, of |-> v]

\* a text json.loads rejects with JSONDecodeError
BadJson(filler) == [valid |-> FALSE, of |-> filler]

JsonValid(t) == t.valid

JsonLoads(t) == t.of

----------------------------------------------------------------------------
(* Python values of the panel_urls field of a message *)

DictVal(d) == [isstr |-> FALSE, dict |-> d, text |-> BadJson(EmptyPanelUrls)]

StrVal(t) == [isstr |-> TRUE, dict |-> EmptyPanelUrls, text |-> t]

\* the message dict built by scrape_comic / accepted by analyze_comic
Message(comic_id, title, panel_urls) ==
    [comic_id |-> comic_id, title |-> title, panel_urls |-> panel_urls]

NoMessage == Message(NoId, NoUrl, DictVal(EmptyPanelUrls))

----------------------------------------------------------------------------
(* Storage gateway: the comics table *)

EmptyText == <<>>   \* the empty string

NullText == <<>>    \* SQL NULL in the text column (a 0/1 sequence)

Row(id, comic_data) ==
    [id |-> id,
     title |-> comic_data.title,
     url |-> comic_data.url,
     panel_urls |-> JsonDumps(comic_data.panel_urls),
     text |-> NullText,
     processed |-> FALSE]

StoredUrls(rs) == {rs[i].url : i \in 1..Len(rs)}

StoredIds(rs) == {rs[i].id : i \in 1..Len(rs)}

\* SELECT * FROM comics ORDER BY date_added DESC LIMIT 1, as a 0/1 sequence;
\* a psycopg2.Error is logged, rolled back and answered with None
GetLatestComic(rs, outcome) ==
    IF outcome = "ok" /\ Len(rs) > 0 THEN <<rs[Len(rs)]>> ELSE <<>>

\* mutant: the INSERT without ON CONFLICT (url) DO NOTHING
InsertComicNoConflict(rs, id, comic_data, outcome) ==
    IF outcome = "ok"
    THEN [id |-> id, rows |-> Append(rs, Row(id, comic_data)), status |-> "inserted"]
    ELSE [id |-> NoId, rows |-> rs, status |-> "error"]

\* INSERT ... ON CONFLICT (url) DO NOTHING RETURNING id, then commit
InsertComic(rs, id, comic_data, outcome) ==
    IF outcome = "ok" /\ comic_data.url \notin StoredUrls(rs)
    THEN [id |-> id, rows |-> Append(rs, Row(id, comic_data)), status |-> "inserted"]
    ELSE [id |-> NoId, rows |-> rs,
          status |-> IF outcome = "ok" THEN "conflict" ELSE "error"]

\* the updates dict: each recognised key as a 0/1 sequence, plus whether
\* it holds keys other than text and processed
Updates(text, processed, other) ==
    [text |-> text, processed |-> processed, other |-> other]

\* mutant: the UPDATE without its WHERE id = comic_id
UpdateComicAllRows(rs, comic_id, updates, outcome) ==
    IF updates.text = <<>> /\ updates.processed = <<>>
    THEN [ok |-> FALSE, rows |-> rs, status |-> "no_fields"]
    ELSE IF outcome # "ok"
    THEN [ok |-> FALSE, rows |-> rs, status |-> "error"]
    ELSE [ok |-> Len(rs) > 0,
          status |-> IF Len(rs) > 0 THEN "updated" ELSE "no_row",
          rows |-> [i \in 1..Len(rs) |->
                     [rs[i] EXCEPT
                        !.text = IF updates.text = <<>> THEN @
                                 ELSE <<JsonDumps(updates.text[1])>>,
                        !.processed = IF updates.processed = <<>> THEN @
                                      ELSE updates.processed[1]]]]

\* UPDATE comics SET <recognised keys> WHERE id = comic_id, then commit
UpdateComic(rs, comic_id, updates, outcome) ==
    IF updates.text = <<>> /\ updates.processed = <<>>
    THEN [ok |-> FALSE, rows |-> rs, status |-> "no_fields"]
    ELSE IF outcome # "ok"
    THEN [ok |-> FALSE, rows |-> rs, status |-> "error"]
    ELSE [ok |-> comic_id \in StoredIds(rs),
          status |-> IF comic_id \in StoredIds(rs) THEN "updated" ELSE "no_row",
          rows |-> [i \in 1..Len(rs) |->
                     IF rs[i].id = comic_id
                     THEN [rs[i] EXCEPT
                            !.text = IF updates.text = <<>> THEN @
                                     ELSE <<JsonDumps(updates.text[1])>>,
                            !.processed = IF updates.processed = <<>> THEN @
                                          ELSE updates.processed[1]]
                     ELSE rs[i]]]

----------------------------------------------------------------------------
(* Text enrichment (ComicAnalyzer; the scraper carries the same code) *)

\* filter_copyright_text(extract_text_from_image(image of panel_url)):
\* the cleaned text read from the panel image
CleanText(panel_url) == <<panel_url>>

\* the panel indices whose image process_comic_panels downloads: those
\* with a key panel<i> holding a non-empty URL
ImagePanels(panel_urls) ==
    {i \in DOMAIN panel_urls.urls : panel_urls.urls[i] # EmptyUrl}

\* mutant: a panel whose download failed gets no entry
ProcessComicPanelsSkipFailed(panel_urls, outcome) ==
    [num_panels |-> panel_urls.num_panels,
     panels |-> [i \in {j \in 1..panel_urls.num_panels :
                          j \in ImagePanels(panel_urls)
                             => outcome[j] # "download_failed"} |->
                  IF i \notin ImagePanels(panel_urls) THEN EmptyText
                  ELSE IF outcome[i] = "ok" THEN CleanText(panel_urls.urls[i])
                  ELSE EmptyText]]

\* process_comic_panels: one entry per index 1..num_panels
ProcessComicPanels(panel_urls, outcome) ==
    [num_panels |-> panel_urls.num_panels,
     panels |-> [i \in 1..panel_urls.num_panels |->
                  IF i \notin ImagePanels(panel_urls) THEN EmptyText
                  ELSE IF outcome[i] = "ok" THEN CleanText(panel_urls.urls[i])
                  ELSE EmptyText]]

\* mutant: analyze_comic answers True whatever update_comic returned
AnalyzeComicIgnoresUpdate(rs, message_data, outcome, upd) ==
    LET pu == message_data.panel_urls
    IN  IF pu.isstr /\ ~JsonValid(pu.text)
        THEN [success |-> FALSE, rows |-> rs, decoded |-> FALSE, update |-> "-"]
        ELSE LET panel_urls == IF pu.isstr THEN JsonLoads(pu.text) ELSE pu.dict
                 text_data == ProcessComicPanels(panel_urls, outcome)
                 updates == Updates(<<text_data>>, <<TRUE>>, FALSE)
                 res == UpdateComic(rs, message_data.comic_id, updates, upd)
             IN  [success |-> TRUE, rows |-> res.rows, decoded |-> TRUE,
                  update |-> res.status]

\* mutant: analyze_comic without the json.loads of a string panel_urls
\* (process_comic_panels raises on a str, which is answered with False)
AnalyzeComicNoDecode(rs, message_data, outcome, upd) ==
    LET pu == message_data.panel_urls
    IN  IF pu.isstr
        THEN [success |-> FALSE, rows |-> rs, decoded |-> JsonValid(pu.text),
              update |-> "-"]
        ELSE LET text_data == ProcessComicPanels(pu.dict, outcome)
                 updates == Updates(<<text_data>>, <<TRUE>>, FALSE)
                 res == UpdateComic(rs, message_data.comic_id, updates, upd)
             IN  [success |-> res.ok, rows |-> res.rows, decoded |-> TRUE,
                  update |-> res.status]

\* analyze_comic: decode panel_urls, read the panels, write text and
\* processed; every exception is caught and answered with False
AnalyzeComic(rs, message_data, outcome, upd) ==
    LET pu == message_data.panel_urls
    IN  IF pu.isstr /\ ~JsonValid(pu.text)
        THEN [success |-> FALSE, rows |-> rs, decoded |-> FALSE, update |-> "-"]
        ELSE LET panel_urls == IF pu.isstr THEN JsonLoads(pu.text) ELSE pu.dict
                 text_data == ProcessComicPanels(panel_urls, outcome)
                 updates == Updates(<<text_data>>, <<TRUE>>, FALSE)
                 res == UpdateComic(rs, message_data.comic_id, updates, upd)
             IN  [success |-> res.ok, rows |-> res.rows, decoded |-> TRUE,
                  update |-> res.status]

\* mutant: the handler acknowledges whatever analyze_comic reports
CallbackAlwaysAck(rs, body, outcome, upd, conn) ==
    IF ~JsonValid(body)
    THEN [calls |-> <<"ack">>, raised |-> conn = "lost",
          decode |-> "body_not_json", success |-> FALSE, rows |-> rs,
          update |-> "-"]
    ELSE LET res == AnalyzeComic(rs, JsonLoads(body), outcome, upd)
         IN  [calls |-> IF conn = "lost" THEN <<"ack", "nack_requeue">> ELSE <<"ack">>,
              raised |-> conn = "lost",
              decode |-> IF res.decoded THEN "ok" ELSE "panel_urls_not_json",
              success |-> res.success,
              update |-> res.update,
              rows |-> res.rows]

\* main.callback: the acknowledgment calls the handler issues, in order,
\* and whether an exception leaves it.  With the broker connection lost
\* (conn = "lost") basic_ack and basic_nack raise: a call raising inside
\* the try block lands in the last handler, which calls basic_nack; one
\* raising inside a handler leaves the callback
Callback(rs, body, outcome, upd, conn) ==
    IF ~JsonValid(body)
    THEN [calls |-> <<"ack">>, raised |-> conn = "lost",
          decode |-> "body_not_json", success |-> FALSE, rows |-> rs,
          update |-> "-"]
    ELSE LET res == AnalyzeComic(rs, JsonLoads(body), outcome, upd)
             first == IF res.success THEN "ack" ELSE "nack_requeue"
         IN  [calls |-> IF conn = "lost" THEN <<first, "nack_requeue">> ELSE <<first>>,
              raised |-> conn = "lost",
              decode |-> IF res.decoded THEN "ok" ELSE "panel_urls_not_json",
              success |-> res.success,
              update |-> res.update,
              rows |-> res.rows]

----------------------------------------------------------------------------
(* Crawl cursor and single-issue ingestion (PennyArcadeScraper) *)

\* which branch of get_next_comic_url answers
ResolveBranch(most_recent, fetch) ==
    IF most_recent = <<>> THEN "bootstrap"
    ELSE IF fetch # "ok" THEN "fetch_failed"
    ELSE IF HasNewer(most_recent[1].url) THEN "newer_link"
    ELSE "no_newer_link"

\* mutant: the resolver fetches the bootstrap page when the table is empty
ResolverFetchAlways(most_recent) ==
    IF most_recent # <<>> THEN most_recent[1].url ELSE FirstComicUrl

\* the page get_next_comic_url fetches: the one of the latest stored row,
\* none (NoUrl) when it is handed None
ResolverFetch(most_recent) ==
    IF most_recent # <<>> THEN most_recent[1].url ELSE NoUrl

\* mutant: the resolver follows the "newest" button instead of "newer"
GetNextComicUrlNewest(most_recent, fetch) ==
    IF most_recent # <<>>
    THEN IF fetch # "ok" THEN NoUrl
         ELSE IF HasNewer(most_recent[1].url) THEN ChainLen
         ELSE NoUrl
    ELSE FirstComicUrl

\* get_next_comic_url: the URL to scrape next, or None (NoUrl)
GetNextComicUrl(most_recent, fetch) ==
    IF most_recent # <<>>
    THEN IF fetch # "ok" THEN NoUrl
         ELSE IF HasNewer(most_recent[1].url) THEN NewerOf(most_recent[1].url)
         ELSE NoUrl
    ELSE FirstComicUrl

\* extract_comic_metadata on the page of url
ExtractComicMetadata(url) ==
    [title |-> TitleOf(url), url |-> url, panel_urls |-> ExtractPanelUrls(url)]

\* scrape_comic after a successful fetch and extraction: insert, and on a
\* new id run analyze_comic on the message in the same call; the result of
\* analyze_comic is not looked at and nothing is handed to QueueManager
ScrapeComic(rs, id, url, ins, outcome, upd) ==
    LET comic_data == ExtractComicMetadata(url)
        res == InsertComic(rs, id, comic_data, ins)
        message == Message(res.id, comic_data.title, DictVal(comic_data.panel_urls))
        an == AnalyzeComic(res.rows, message, outcome, upd)
    IN  IF res.id # NoId
        THEN [rows |-> an.rows, id |-> res.id, insert |-> res.status,
              analyzed |-> IF an.success THEN "success" ELSE "failed"]
        ELSE [rows |-> res.rows, id |-> NoId, insert |-> res.status,
              analyzed |-> "-"]

----------------------------------------------------------------------------
(* Step log *)

NoEv ==
    [op |-> "init", resolve |-> "-", probe |-> NoUrl, next |-> NoUrl, insert |-> "-",
     id |-> NoId, analyzed |-> "-", log |-> "-",
     decode |-> "-", success |-> FALSE, calls |-> <<>>, raised |-> FALSE,
     update |-> "-", download_failed |-> {}, form |-> "-",
     updates |-> Updates(<<>>, <<>>, FALSE)]

----------------------------------------------------------------------------
(* Initial state: empty table, empty queue, scraper asleep, workers up *)

Init ==
    /\ rows = <<>>
    /\ nextId = 1
    /\ pc = "idle"
    /\ iter = 0
    /\ queue = <<>>
    /\ inflight = [w \in Workers |-> <<>>]
    /\ alive = [w \in Workers |-> TRUE]
    /\ published = 0
    /\ batch = 0
    /\ html = NoHtml
    /\ panels_data = <<>>
    /\ extracted = NotExtracted
    /\ cleaned_text = <<>>
    /\ db_conn = [c \in Components |-> c \in Workers]
    /\ wpc = [w \in Workers |-> "consuming"]
    /\ retries = [w \in Workers |-> 0]
    /\ hpc = [h \in Handlers |-> "idle"]
    /\ api_conn = NoConn
    /\ api_cursor = NoConn
    /\ pool_used = {}
    /\ requests = 0
    /\ ev = NoEv

----------------------------------------------------------------------------
(* Scraper process: main's loop around run_scraping_cycle *)

\* an exception leaves run_scraping_cycle (logged, re-raised, the finally
\* block disconnects) and main's while loop, which has no handler
Crash(op) ==
    /\ pc' = "crashed"
    /\ iter' = 0
    /\ ev' = [NoEv EXCEPT !.op = op, !.log = "error_during_scraping_cycle"]
    /\ db_conn' = [db_conn EXCEPT !["scraper"] = FALSE]
    /\ UNCHANGED <<rows, nextId, queue, inflight, alive, published, batch,
                   html, panels_data, extracted, cleaned_text, wpc, retries,
                   hpc, api_conn, api_cursor, pool_used, requests>>

\* the sleep is over: run_scraping_cycle starts with db.connect()
StartCycle ==
    /\ pc = "idle"
    /\ \E c \in {"ok", "raise"} :
         IF c = "ok"
         THEN /\ pc' = "running"
              /\ iter' = 0
              /\ ev' = [NoEv EXCEPT !.op = "connect", !.log = "starting_scraping_cycle"]
              /\ batch' = 0
              /\ db_conn' = [db_conn EXCEPT !["scraper"] = TRUE]
              /\ UNCHANGED <<rows, nextId, queue, inflight, alive, published,
                             html, panels_data, extracted, cleaned_text, wpc,
                             retries, hpc, api_conn, api_cursor, pool_used,
                             requests>>
         ELSE Crash("connect")

\* the cycle returns: nothing to fetch (the resolver answered None); the
\* finally block disconnects
EndCycle(branch, probe) ==
    /\ pc' = "idle"
    /\ iter' = 0
    /\ ev' = [NoEv EXCEPT !.op = "resolve", !.resolve = branch, !.probe = probe,
                          !.log = "cycle_complete_no_new_comics"]
    /\ db_conn' = [db_conn EXCEPT !["scraper"] = FALSE]
    /\ UNCHANGED <<rows, nextId, queue, inflight, alive, published, batch,
                   html, panels_data, extracted, cleaned_text, wpc, retries,
                   hpc, api_conn, api_cursor, pool_used, requests>>

\* mutant: the for loop has no bound on its passes
NextPassNoLimit(e) ==
    /\ iter' = 0
    /\ pc' = "running"
    /\ ev' = e
    /\ UNCHANGED <<queue, inflight, alive, published, html, panels_data,
                   extracted, cleaned_text, db_conn, wpc, retries, hpc,
                   api_conn, api_cursor, pool_used, requests>>

\* end of one pass of the for loop; after the last pass the finally block
\* of run_scraping_cycle disconnects
NextPass(e) ==
    /\ iter' = IF iter + 1 < BatchLimit THEN iter + 1 ELSE 0
    /\ pc' = IF iter + 1 < BatchLimit THEN "running" ELSE "idle"
    /\ ev' = e
    /\ db_conn' = [db_conn EXCEPT !["scraper"] = iter + 1 < BatchLimit]
    /\ UNCHANGED <<queue, inflight, alive, published, html, panels_data,
                   extracted, cleaned_text, wpc, retries, hpc, api_conn,
                   api_cursor, pool_used, requests>>

\* scrape_comic(url) with its fetch, extraction, insert and enrichment outcomes
Scrape(branch, url, probe) ==
    LET e0 == [NoEv EXCEPT !.op = "scrape", !.resolve = branch, !.next = url,
                           !.probe = probe,
                           !.log = "scraping_cycle_completed"]
    IN  \E fetch \in {"ok", "fail"}, extract \in {"ok", "fail"} :
          IF fetch # "ok"
          THEN /\ extract = "ok"
               /\ NextPass([e0 EXCEPT !.insert = "fetch_failed"])
               /\ UNCHANGED <<rows, nextId, batch, hpc, api_conn, api_cursor,
                              pool_used, requests>>
          ELSE IF extract # "ok"
          THEN /\ NextPass([e0 EXCEPT !.insert = "extract_failed"])
               /\ UNCHANGED <<rows, nextId, batch, hpc, api_conn, api_cursor,
                              pool_used, requests>>
          ELSE \E ins \in DbOutcomes :
                 IF ins = "broken"
                 THEN Crash("insert_comic")
                 ELSE \E outcome \in [ImagePanels(ExtractPanelUrls(url)) -> PanelOutcomes],
                         upd \in DbOutcomes :
                        LET r == ScrapeComic(rows, nextId, url, ins, outcome, upd)
                        IN  /\ r.id = NoId =>
                                 /\ upd = "ok"
                                 /\ \A i \in DOMAIN outcome : outcome[i] = "ok"
                            /\ rows' = r.rows
                            /\ nextId' = IF r.id = NoId THEN nextId ELSE nextId + 1
                            /\ batch' = IF r.id = NoId THEN batch ELSE batch + 1
                            /\ NextPass([e0 EXCEPT !.insert = r.insert, !.id = r.id,
                                                   !.analyzed = r.analyzed])

\* one pass of the for loop of run_scraping_cycle: latest, resolve, scrape
CrawlStep ==
    /\ pc = "running"
    /\ \E lat \in DbOutcomes :
         IF lat = "broken"
         THEN Crash("get_latest_comic")
         ELSE LET most_recent == GetLatestComic(rows, lat)
                  probe == ResolverFetch(most_recent)
              IN  \E fetch \in (IF probe = NoUrl THEN {"ok"} ELSE {"ok", "fail"}) :
                    LET next == GetNextComicUrl(most_recent, fetch)
                        branch == ResolveBranch(most_recent, fetch)
                    IN  IF next = NoUrl
                        THEN EndCycle(branch, probe)
                        ELSE Scrape(branch, next, probe)

----------------------------------------------------------------------------
(* analyzer_queue and the analyzer processes *)

\* the comic ids publishers put into messages: stored ones and, on a
\* shorter table, ids that are not stored
MessageIds == {u \in Urls : u <= MaxTable}

\* the Panel Location Set with "" written for every panel without URL
FilledPanelUrls(d) ==
    [num_panels |-> d.num_panels,
     urls |-> [i \in 1..d.num_panels |->
                 IF i \in DOMAIN d.urls THEN d.urls[i] ELSE EmptyUrl]]

\* the representations of panel_urls a publisher may put into a message:
\* the dict, the dict with "" for the panels without URL, its JSON text,
\* or a string that is no JSON text
PanelUrlsForms(d) ==
    {DictVal(d), DictVal(FilledPanelUrls(d)), StrVal(JsonDumps(d)), StrVal(BadJson(d))}

\* QueueManager.send_message(message): body = json.dumps(message),
\* persistent, routed to analyzer_queue
SendMessage ==
    /\ published < MaxPublished
    /\ \E id \in MessageIds : \E pu \in PanelUrlsForms(ExtractPanelUrls(id)) :
         LET body == JsonDumps(Message(id, TitleOf(id), pu))
         IN  /\ queue' = Append(queue, body)
             /\ published' = published + 1
             /\ ev' = [NoEv EXCEPT !.op = "publish"]
    /\ UNCHANGED <<rows, nextId, pc, iter, inflight, alive, batch, html,
                   panels_data, extracted, cleaned_text, db_conn, wpc,
                   retries, hpc, api_conn, api_cursor, pool_used, requests>>

\* another client of the broker publishes a body that is no JSON text
ForeignPublish ==
    /\ published < MaxPublished
    /\ LET body == BadJson(NoMessage)
       IN  /\ queue' = Append(queue, body)
           /\ published' = published + 1
           /\ ev' = [NoEv EXCEPT !.op = "publish"]
    /\ UNCHANGED <<rows, nextId, pc, iter, inflight, alive, batch, html,
                   panels_data, extracted, cleaned_text, db_conn, wpc,
                   retries, hpc, api_conn, api_cursor, pool_used, requests>>

\* mutant: no basic_qos, the broker pushes without limit
HasCreditNoQos(w) == TRUE

\* basic_qos(prefetch_count=1) with manual acknowledgment: the broker sends
\* to a consumer only while it holds fewer unacknowledged deliveries
HasCredit(w) == Len(inflight[w]) < PrefetchCount

\* the broker hands the head of the queue to a consumer with free credit
Deliver(w) ==
    /\ alive[w]
    /\ HasCredit(w)
    /\ queue # <<>>
    /\ inflight' = [inflight EXCEPT ![w] = Append(inflight[w], Head(queue))]
    /\ queue' = Tail(queue)
    /\ ev' = [NoEv EXCEPT !.op = "deliver"]
    /\ UNCHANGED <<rows, nextId, pc, iter, alive, published, batch, html,
                   panels_data, extracted, cleaned_text, db_conn, wpc,
                   retries, hpc, api_conn, api_cursor, pool_used, requests>>

\* the comic id a queue body names (NoId when the body is no JSON text)
ComicIdOf(body) == IF JsonValid(body) THEN JsonLoads(body).comic_id ELSE NoId

\* how panel_urls arrives in body: isinstance(panel_urls, str) or not
PanelUrlsForm(body) ==
    IF ~JsonValid(body) THEN "-"
    ELSE IF JsonLoads(body).panel_urls.isstr THEN "str" ELSE "dict"

\* the panels whose image the handler of body fetches
BodyImagePanels(body) ==
    IF ~JsonValid(body) THEN {}
    ELSE LET pu == JsonLoads(body).panel_urls
         IN  IF pu.isstr
             THEN (IF JsonValid(pu.text) THEN ImagePanels(JsonLoads(pu.text)) ELSE {})
             ELSE ImagePanels(pu.dict)

\* whether the handler of body reaches update_comic
BodyReachesUpdate(body) ==
    /\ JsonValid(body)
    /\ LET pu == JsonLoads(body).panel_urls IN pu.isstr => JsonValid(pu.text)

\* callback(ch, method, properties, body) on the delivery of worker w.
\* An exception leaving the callback leaves start_consuming and main (only
\* KeyboardInterrupt is handled there): the consumer process ends and the
\* broker requeues its unacknowledged delivery
Handle(w) ==
    /\ alive[w]
    /\ inflight[w] # <<>>
    /\ LET body == inflight[w][1]
       IN  \E outcome \in [BodyImagePanels(body) -> PanelOutcomes],
              upd \in (IF BodyReachesUpdate(body) THEN DbOutcomes ELSE {"ok"}),
              conn \in {"up", "lost"} :
             LET res == Callback(rows, body, outcome, upd, conn)
             IN  /\ rows' = res.rows
                 /\ inflight' = [inflight EXCEPT ![w] = <<>>]
                 /\ queue' = IF ~res.raised /\ res.calls = <<"ack">> THEN queue
                             ELSE <<body>> \o queue
                 /\ alive' = [alive EXCEPT ![w] = ~res.raised]
                 /\ ev' = [NoEv EXCEPT !.op = "callback", !.decode = res.decode,
                                       !.success = res.success, !.calls = res.calls,
                                       !.raised = res.raised,
                                       !.id = ComicIdOf(body),
                                       !.form = PanelUrlsForm(body),
                                       !.update = res.update,
                                       !.download_failed =
                                          {i \in DOMAIN outcome :
                                             outcome[i] = "download_failed"}]
    /\ UNCHANGED <<nextId, pc, iter, published, batch, html, panels_data,
                   extracted, cleaned_text, db_conn, wpc, retries, hpc,
                   api_conn, api_cursor, pool_used, requests>>

----------------------------------------------------------------------------

(* The scraper process (scraper/main.py main): crawl cycles on the table *)

Next ==
    \/ StartCycle
    \/ CrawlStep

Spec == Init /\ [][Next]_vars

\* the table holds every issue of the chain, in chain order
WholeChainStored ==
    /\ Len(rows) = ChainLen
    /\ \A i \in 1..ChainLen : rows[i].url = i

\* a crawl pass can store a row: a cycle runs and an issue is missing
StoringEnabled == pc = "running" /\ ~WholeChainStored

\* the last step was a crawl pass whose latest(), fetches, extraction and
\* insert succeeded and stored a row
Stored == ev.op = "scrape" /\ ev.insert = "inserted"

\* the scraper process runs on: every sleep ends (weak fairness of
\* StartCycle), every started cycle is carried through, and fetch,
\* extraction and insert do not fail for ever (strong fairness of the
\* storing pass: if it is possible again and again, it happens again and
\* again)
SpecFair ==
    /\ Spec
    /\ WF_vars(StartCycle)
    /\ []<>(pc # "running")
    /\ (<>[](~StoringEnabled)) \/ ([]<>Stored)

----------------------------------------------------------------------------
(* The analyzer processes (analyzer/main.py main) on a crawled table *)

\* the tables the scraper leaves behind: issues 1..n of the chain inserted
\* in order by scrape_comic, each with whatever its enrichment call did
RECURSIVE CrawledTables(_)
CrawledTables(n) ==
    IF n = 0 THEN {<<>>}
    ELSE {ScrapeComic(t, n, n, "ok", outcome, upd).rows :
            t \in CrawledTables(n - 1),
            outcome \in [ImagePanels(ExtractPanelUrls(n)) -> PanelOutcomes],
            upd \in DbOutcomes}

InitAnalyzer ==
    /\ \E n \in {0} \cup MessageIds :
         /\ rows \in CrawledTables(n)
         /\ nextId = n + 1
    /\ pc = "idle"
    /\ iter = 0
    /\ queue = <<>>
    /\ inflight = [w \in Workers |-> <<>>]
    /\ alive = [w \in Workers |-> TRUE]
    /\ published = 0
    /\ batch = 0
    /\ html = NoHtml
    /\ panels_data = <<>>
    /\ extracted = NotExtracted
    /\ cleaned_text = <<>>
    /\ db_conn = [c \in Components |-> c \in Workers]
    /\ wpc = [w \in Workers |-> "consuming"]
    /\ retries = [w \in Workers |-> 0]
    /\ hpc = [h \in Handlers |-> "idle"]
    /\ api_conn = NoConn
    /\ api_cursor = NoConn
    /\ pool_used = {}
    /\ requests = 0
    /\ ev = NoEv

NextAnalyzer ==
    \/ SendMessage
    \/ ForeignPublish
    \/ \E w \in Workers : Deliver(w)
    \/ \E w \in Workers : Handle(w)

SpecAnalyzer == InitAnalyzer /\ [][NextAnalyzer]_vars

----------------------------------------------------------------------------
(* The storage gateway on its own: insert_comic and update_comic calls *)

\* the text payload process_comic_panels builds for the first issue
SomeText ==
    ProcessComicPanels(ExtractPanelUrls(FirstComicUrl),
                       [i \in ImagePanels(ExtractPanelUrls(FirstComicUrl)) |-> "ok"])

\* the updates dicts handed to update_comic: with or without text, with or
\* without processed, with or without keys update_comic does not know
UpdatesDicts ==
    {Updates(text, processed, other) :
        text \in {<<>>, <<SomeText>>},
        processed \in {<<>>, <<TRUE>>},
        other \in BOOLEAN}

\* the URLs of the issues handed to insert_comic
InsertedUrls == {u \in Urls : u <= MaxTable}

\* comic_id = db.insert_comic(comic_data).  With outcome "broken" the
\* rollback in the except block raises and the exception leaves insert_comic
InsertCall ==
    \E url \in InsertedUrls, outcome \in DbOutcomes :
       /\ LET r == InsertComic(rows, nextId, ExtractComicMetadata(url), outcome)
          IN  /\ rows' = r.rows
              /\ nextId' = IF r.id = NoId THEN nextId ELSE nextId + 1
              /\ ev' = [NoEv EXCEPT !.op = "insert_comic", !.next = url,
                                    !.insert = r.status, !.id = r.id,
                                    !.raised = (outcome = "broken")]
       /\ UNCHANGED <<pc, iter, queue, inflight, alive, published, batch,
                      html, panels_data, extracted, cleaned_text, db_conn,
                      wpc, retries, hpc, api_conn, api_cursor, pool_used,
                      requests>>

\* success = db.update_comic(comic_id, updates).  With outcome "broken" the
\* rollback in the except block raises and the exception leaves update_comic
UpdateCall ==
    \E comic_id \in 1..(MaxTable + 1), updates \in UpdatesDicts,
       outcome \in DbOutcomes :
       LET r == UpdateComic(rows, comic_id, updates, outcome)
       IN  /\ r.status = "no_fields" => outcome = "ok"
           /\ rows' = r.rows
           /\ ev' = [NoEv EXCEPT !.op = "update_comic", !.id = comic_id,
                                 !.updates = updates, !.update = r.status,
                                 !.success = r.ok,
                                 !.raised = (r.status = "error"
                                             /\ outcome = "broken")]
           /\ UNCHANGED <<nextId, pc, iter, queue, inflight, alive,
                          published, batch, html, panels_data, extracted,
                          cleaned_text, db_conn, wpc, retries, hpc, api_conn,
                          api_cursor, pool_used, requests>>

NextStorage ==
    \/ InsertCall
    \/ UpdateCall

SpecStorage == Init /\ [][NextStorage]_vars

----------------------------------------------------------------------------
(* The extractor on its own: extract_panel_urls on any page *)

SeqUpTo(S, n) == UNION {[1..k -> S] : k \in 0..n}

\* the srcset entries a page may carry: a URL and its density descriptor
SrcsetEntries == {<<ImageUrl(0, 0, t), t>> : t \in {"1x", "2x"}}

\* the <img> elements of a page: with or without srcset, with or without src
Imgs ==
    {Img(srcset, src) :
        srcset \in {<<>>} \cup {<<e>> : e \in SeqUpTo(SrcsetEntries, MaxSrcset)},
        src \in {<<>>, <<ImageUrl(0, 0, "src")>>}}

\* the panel containers of a page: without <img> or with one
PanelDivs == {PanelDiv(<<>>)} \cup {PanelDiv(<<img>>) : img \in Imgs}

\* the date labels of a page: none, an empty one, one in the format
\* "%B %d, %Y", and two that are not (other format, no such day)
DateLabels ==
    {<<>>, <<"">>, <<"November 18, 1998">>, <<"1998-11-18">>,
     <<"November 31, 1998">>}

\* the pages: without comic-area, or with one holding up to MaxPanels
\* panels, under a date label that parses; and the page of the first issue
\* under every date label
Pages ==
    {Page(FALSE, <<>>, <<DateOf(FirstComicUrl)>>)}
        \cup {Page(TRUE, ps, <<DateOf(FirstComicUrl)>>) :
                 ps \in SeqUpTo(PanelDivs, MaxPanels)}
        \cup {Page(TRUE, Html(FirstComicUrl).panels, date) :
                 date \in DateLabels}

InitExtract ==
    /\ rows = <<>>
    /\ nextId = 1
    /\ pc = "idle"
    /\ iter = 0
    /\ queue = <<>>
    /\ inflight = [w \in Workers |-> <<>>]
    /\ alive = [w \in Workers |-> TRUE]
    /\ published = 0
    /\ batch = 0
    /\ html \in Pages
    /\ panels_data = <<>>
    /\ extracted = NotExtracted
    /\ cleaned_text = <<>>
    /\ db_conn = [c \in Components |-> c \in Workers]
    /\ wpc = [w \in Workers |-> "consuming"]
    /\ retries = [w \in Workers |-> 0]
    /\ hpc = [h \in Handlers |-> "idle"]
    /\ api_conn = NoConn
    /\ api_cursor = NoConn
    /\ pool_used = {}
    /\ requests = 0
    /\ ev = NoEv

\* panel_urls = self.extract_panel_urls(html)
ExtractPanels ==
    /\ panels_data = <<>>
    /\ panels_data' = <<ExtractPanelUrlsHtml(html)>>
    /\ ev' = [NoEv EXCEPT !.op = "extract_panel_urls"]
    /\ UNCHANGED <<rows, nextId, pc, iter, queue, inflight, alive, published,
                   batch, html, extracted, cleaned_text, db_conn, wpc,
                   retries, hpc, api_conn, api_cursor, pool_used, requests>>

\* comic_data = self.extract_comic_metadata(html, url)
ExtractMetadata ==
    /\ ~extracted.called
    /\ extracted' = Extracted(ExtractComicMetadataHtml(html, FirstComicUrl))
    /\ ev' = [NoEv EXCEPT !.op = "extract_comic_metadata"]
    /\ UNCHANGED <<rows, nextId, pc, iter, queue, inflight, alive, published,
                   batch, html, panels_data, cleaned_text, db_conn, wpc,
                   retries, hpc, api_conn, api_cursor, pool_used, requests>>

NextExtract ==
    \/ ExtractPanels
    \/ ExtractMetadata

SpecExtract == InitExtract /\ [][NextExtract]_vars

----------------------------------------------------------------------------
(* The boilerplate filter on its own: filter_copyright_text on any text *)

\* a text is a sequence of chunks: the two halves of a copyright notice
\* (cut inside the word Krahulik), the two halves of the site URL, a blank
\* and an ordinary word
Chunks ==
    {"copyright 2024 Mike Krahul", "ik & Jerry Holkins", "www.penny", "-arcade.com",
     " ", "word"}

\* copyright_pattern and url_pattern, as the chunks a match is made of
CopyrightPattern == <<"copyright 2024 Mike Krahul", "ik & Jerry Holkins">>

UrlPattern == <<"www.penny", "-arcade.com">>

\* re.sub(pattern, '', text): one scan from the left that drops every
\* match and goes on behind it
RECURSIVE ReSubEmpty(_, _)
ReSubEmpty(pattern, text) ==
    IF Len(text) < Len(pattern) THEN text
    ELSE IF SubSeq(text, 1, Len(pattern)) = pattern
    THEN ReSubEmpty(pattern, SubSeq(text, Len(pattern) + 1, Len(text)))
    ELSE <<text[1]>> \o ReSubEmpty(pattern, Tail(text))

\* re.sub(r'\s+', ' ', text): every run of blanks becomes one blank
RECURSIVE CollapseBlanks(_)
CollapseBlanks(text) ==
    IF Len(text) < 2 THEN text
    ELSE IF text[1] = " " /\ text[2] = " " THEN CollapseBlanks(Tail(text))
    ELSE <<text[1]>> \o CollapseBlanks(Tail(text))

\* str.strip() of a text whose runs of blanks are collapsed
Strip(text) ==
    LET lo == IF text # <<>> /\ text[1] = " " THEN 2 ELSE 1
        hi == IF Len(text) >= lo /\ text[Len(text)] = " "
              THEN Len(text) - 1 ELSE Len(text)
    IN  SubSeq(text, lo, hi)

\* filter_copyright_text(text)
FilterCopyrightText(text) ==
    IF text = <<>> THEN text
    ELSE Strip(CollapseBlanks(ReSubEmpty(UrlPattern,
                                         ReSubEmpty(CopyrightPattern, text))))

Texts == SeqUpTo(Chunks, MaxText)

InitFilter ==
    /\ rows = <<>>
    /\ nextId = 1
    /\ pc = "idle"
    /\ iter = 0
    /\ queue = <<>>
    /\ inflight = [w \in Workers |-> <<>>]
    /\ alive = [w \in Workers |-> TRUE]
    /\ published = 0
    /\ batch = 0
    /\ html = NoHtml
    /\ panels_data = <<>>
    /\ extracted = NotExtracted
    /\ cleaned_text \in Texts
    /\ db_conn = [c \in Components |-> c \in Workers]
    /\ wpc = [w \in Workers |-> "consuming"]
    /\ retries = [w \in Workers |-> 0]
    /\ hpc = [h \in Handlers |-> "idle"]
    /\ api_conn = NoConn
    /\ api_cursor = NoConn
    /\ pool_used = {}
    /\ requests = 0
    /\ ev = NoEv

\* clean_text = self.filter_copyright_text(raw_text), on a raw text or on
\* a text that went through the filter before
Filter ==
    /\ cleaned_text' = FilterCopyrightText(cleaned_text)
    /\ ev' = [NoEv EXCEPT !.op = "filter_copyright_text"]
    /\ UNCHANGED <<rows, nextId, pc, iter, queue, inflight, alive, published,
                   batch, html, panels_data, extracted, db_conn, wpc,
                   retries, hpc, api_conn, api_cursor, pool_used, requests>>

NextFilter == Filter

SpecFilter == InitFilter /\ [][NextFilter]_vars

----------------------------------------------------------------------------
(* The analyzer processes under KeyboardInterrupt (analyzer/main.py main) *)

\* QueueManager.send_message(message) with the message of a stored issue
SendStoredMessage ==
    /\ published < MaxQueued
    /\ \E i \in 1..Len(rows) :
         LET body == JsonDumps(Message(rows[i].id, rows[i].title,
                                       DictVal(JsonLoads(rows[i].panel_urls))))
         IN  /\ queue' = Append(queue, body)
             /\ published' = published + 1
             /\ ev' = [NoEv EXCEPT !.op = "publish"]
    /\ UNCHANGED <<rows, nextId, pc, iter, inflight, alive, batch, html,
                   panels_data, extracted, cleaned_text, db_conn, wpc,
                   retries, hpc, api_conn, api_cursor, pool_used, requests>>

\* KeyboardInterrupt reaches worker w inside channel.start_consuming():
\* between callbacks, or inside the callback (which no except clause of
\* it catches) before update_comic or between update_comic and the
\* acknowledgment.  Control is in main's except KeyboardInterrupt block
Interrupt(w) ==
    /\ alive[w]
    /\ wpc[w] = "consuming"
    /\ wpc' = [wpc EXCEPT ![w] = "interrupted"]
    /\ \/ /\ rows' = rows
          /\ ev' = [NoEv EXCEPT !.op = "interrupt"]
       \/ /\ inflight[w] # <<>>
          /\ LET body == inflight[w][1]
             IN  \E outcome \in [BodyImagePanels(body) -> PanelOutcomes] :
                   LET res == Callback(rows, body, outcome, "ok", "up")
                   IN  /\ res.update = "updated"
                       /\ rows' = res.rows
                       /\ ev' = [NoEv EXCEPT !.op = "interrupt",
                                             !.id = ComicIdOf(body),
                                             !.update = res.update]
    /\ UNCHANGED <<nextId, pc, iter, queue, inflight, alive, published,
                   batch, html, panels_data, extracted, cleaned_text,
                   db_conn, retries, hpc, api_conn, api_cursor, pool_used,
                   requests>>

\* channel.stop_consuming(): the consumer is cancelled and gets no further
\* delivery.  On a lost broker connection the call raises inside the
\* except block: main ends there, and the broker requeues what the dead
\* connection held
StopConsuming(w) ==
    /\ wpc[w] = "interrupted"
    /\ alive' = [alive EXCEPT ![w] = FALSE]
    /\ \E conn \in {"up", "lost"} :
         IF conn = "up"
         THEN /\ wpc' = [wpc EXCEPT ![w] = "stopped"]
              /\ ev' = [NoEv EXCEPT !.op = "stop_consuming"]
              /\ UNCHANGED <<queue, inflight, hpc, api_conn, api_cursor,
                             pool_used, requests>>
         ELSE /\ wpc' = [wpc EXCEPT ![w] = "exited"]
              /\ queue' = inflight[w] \o queue
              /\ inflight' = [inflight EXCEPT ![w] = <<>>]
              /\ ev' = [NoEv EXCEPT !.op = "stop_consuming", !.raised = TRUE]
    /\ UNCHANGED <<rows, nextId, pc, iter, published, batch, html,
                   panels_data, extracted, cleaned_text, db_conn, retries,
                   hpc, api_conn, api_cursor, pool_used, requests>>

\* connection.close(): the broker requeues the unacknowledged delivery of
\* the closed connection.  On a lost connection the call raises and main
\* ends in the except block
CloseConnection(w) ==
    /\ wpc[w] = "stopped"
    /\ queue' = inflight[w] \o queue
    /\ inflight' = [inflight EXCEPT ![w] = <<>>]
    /\ \E conn \in {"up", "lost"} :
         IF conn = "up"
         THEN /\ wpc' = [wpc EXCEPT ![w] = "closed"]
              /\ ev' = [NoEv EXCEPT !.op = "connection_close"]
         ELSE /\ wpc' = [wpc EXCEPT ![w] = "exited"]
              /\ ev' = [NoEv EXCEPT !.op = "connection_close", !.raised = TRUE]
    /\ UNCHANGED <<rows, nextId, pc, iter, alive, published, batch, html,
                   panels_data, extracted, cleaned_text, db_conn, retries,
                   hpc, api_conn, api_cursor, pool_used, requests>>

\* db_manager.disconnect(): the connection goes back to the pool (an error
\* of putconn is logged), conn and cursor are cleared, main returns
Disconnect(w) ==
    /\ wpc[w] = "closed"
    /\ db_conn' = [db_conn EXCEPT ![w] = FALSE]
    /\ wpc' = [wpc EXCEPT ![w] = "exited"]
    /\ ev' = [NoEv EXCEPT !.op = "disconnect"]
    /\ UNCHANGED <<rows, nextId, pc, iter, queue, inflight, alive, published,
                   batch, html, panels_data, extracted, cleaned_text,
                   retries, hpc, api_conn, api_cursor, pool_used, requests>>

InitConsumers ==
    /\ rows \in CrawledTables(FirstComicUrl)
    /\ nextId = FirstComicUrl + 1
    /\ pc = "idle"
    /\ iter = 0
    /\ queue = <<>>
    /\ inflight = [w \in Workers |-> <<>>]
    /\ alive = [w \in Workers |-> TRUE]
    /\ published = 0
    /\ batch = 0
    /\ html = NoHtml
    /\ panels_data = <<>>
    /\ extracted = NotExtracted
    /\ cleaned_text = <<>>
    /\ db_conn = [c \in Components |-> c \in Workers]
    /\ wpc = [w \in Workers |-> "consuming"]
    /\ retries = [w \in Workers |-> 0]
    /\ hpc = [h \in Handlers |-> "idle"]
    /\ api_conn = NoConn
    /\ api_cursor = NoConn
    /\ pool_used = {}
    /\ requests = 0
    /\ ev = NoEv

NextConsumers ==
    \/ SendStoredMessage
    \/ \E w \in Workers : Deliver(w)
    \/ \E w \in Workers : Handle(w)
    \/ \E w \in Workers : Interrupt(w)
    \/ \E w \in Workers : StopConsuming(w)
    \/ \E w \in Workers : CloseConnection(w)
    \/ \E w \in Workers : Disconnect(w)

SpecConsumers == InitConsumers /\ [][NextConsumers]_vars

----------------------------------------------------------------------------
(* Startup of the analyzer processes: get_rabbitmq_connection and main *)

\* mutant: while True
LoopConditionAlways(r) == TRUE

\* while retries < max_retries
LoopCondition(r) == r < MaxRetries

\* one pass of the loop of get_rabbitmq_connection in worker w.  On
\* AMQPConnectionError it sleeps retry_delay and counts; with a connection
\* it returns at once (its local retries is gone), and main declares the
\* queue, registers the callback, connects to storage (an error of which
\* leaves main) and starts consuming
TryConnect(w) ==
    /\ wpc[w] = "connecting"
    /\ LoopCondition(retries[w])
    /\ \E attempt \in {"ok", "refused"}, db \in {"ok", "raise"} :
         IF attempt = "refused"
         THEN /\ db = "ok"
              /\ retries' = [retries EXCEPT ![w] = retries[w] + 1]
              /\ ev' = [NoEv EXCEPT !.op = "connect_broker", !.log = "retrying"]
              /\ UNCHANGED <<wpc, alive, db_conn, hpc, api_conn, api_cursor,
                             pool_used, requests>>
         ELSE IF db = "raise"
         THEN /\ wpc' = [wpc EXCEPT ![w] = "exited"]
              /\ retries' = [retries EXCEPT ![w] = 0]
              /\ ev' = [NoEv EXCEPT !.op = "connect_broker", !.raised = TRUE]
              /\ UNCHANGED <<alive, db_conn, hpc, api_conn, api_cursor,
                             pool_used, requests>>
         ELSE /\ wpc' = [wpc EXCEPT ![w] = "consuming"]
              /\ alive' = [alive EXCEPT ![w] = TRUE]
              /\ db_conn' = [db_conn EXCEPT ![w] = TRUE]
              /\ retries' = [retries EXCEPT ![w] = 0]
              /\ ev' = [NoEv EXCEPT !.op = "connect_broker", !.log = "connected"]
    /\ UNCHANGED <<rows, nextId, pc, iter, queue, inflight, published, batch,
                   html, panels_data, extracted, cleaned_text, hpc, api_conn,
                   api_cursor, pool_used, requests>>

\* the loop is over without a connection: get_rabbitmq_connection logs,
\* returns None, and main returns
GiveUp(w) ==
    /\ wpc[w] = "connecting"
    /\ ~LoopCondition(retries[w])
    /\ wpc' = [wpc EXCEPT ![w] = "exited"]
    /\ ev' = [NoEv EXCEPT !.op = "connect_broker", !.log = "failed_to_connect"]
    /\ UNCHANGED <<rows, nextId, pc, iter, queue, inflight, alive, published,
                   batch, html, panels_data, extracted, cleaned_text,
                   db_conn, retries, hpc, api_conn, api_cursor, pool_used,
                   requests>>

\* both workers start while analyzer_queue holds the message of issue 1
InitStartup ==
    /\ rows \in CrawledTables(FirstComicUrl)
    /\ nextId = FirstComicUrl + 1
    /\ pc = "idle"
    /\ iter = 0
    /\ queue = <<JsonDumps(Message(rows[1].id, rows[1].title,
                                   DictVal(JsonLoads(rows[1].panel_urls))))>>
    /\ inflight = [w \in Workers |-> <<>>]
    /\ alive = [w \in Workers |-> FALSE]
    /\ published = 1
    /\ batch = 0
    /\ html = NoHtml
    /\ panels_data = <<>>
    /\ extracted = NotExtracted
    /\ cleaned_text = <<>>
    /\ db_conn = [c \in Components |-> FALSE]
    /\ wpc = [w \in Workers |-> "connecting"]
    /\ retries = [w \in Workers |-> 0]
    /\ hpc = [h \in Handlers |-> "idle"]
    /\ api_conn = NoConn
    /\ api_cursor = NoConn
    /\ pool_used = {}
    /\ requests = 0
    /\ ev = NoEv

NextStartup ==
    \/ \E w \in Workers : TryConnect(w)
    \/ \E w \in Workers : GiveUp(w)
    \/ \E w \in Workers : Deliver(w)
    \/ \E w \in Workers : Handle(w)

SpecStartup == InitStartup /\ [][NextStartup]_vars

\* every starting process keeps running its loop
SpecStartupFair ==
    /\ SpecStartup
    /\ \A w \in Workers : WF_vars(TryConnect(w) \/ GiveUp(w))

----------------------------------------------------------------------------
(* The read API (api/app.py): request threads on one shared DatabaseManager *)

\* pool.getconn(): a connection of the pool that is not in use.  Fewer
\* than maxconn = 10 are ever taken here, so the pool does not run out
GetConn == CHOOSE c \in 1..(MaxRequests + 1) : c \notin pool_used

ApiUnchanged ==
    UNCHANGED <<rows, nextId, pc, iter, queue, inflight, alive, published,
                batch, html, panels_data, extracted, cleaned_text, db_conn,
                wpc, retries>>

\* a request arrives: before_request calls db_manager.connect(), which
\* tests self.conn is None
BeforeRequest(h) ==
    /\ hpc[h] = "idle"
    /\ requests < MaxRequests
    /\ requests' = requests + 1
    /\ hpc' = [hpc EXCEPT ![h] = IF api_conn = NoConn THEN "getconn" ELSE "view"]
    /\ ev' = [NoEv EXCEPT !.op = "before_request"]
    /\ UNCHANGED <<api_conn, api_cursor, pool_used>>
    /\ ApiUnchanged

\* connect(), after the test: self.conn = self.pool.getconn()
ConnectGetconn(h) ==
    /\ hpc[h] = "getconn"
    /\ api_conn' = GetConn
    /\ pool_used' = pool_used \cup {GetConn}
    /\ hpc' = [hpc EXCEPT ![h] = "cursor"]
    /\ ev' = [NoEv EXCEPT !.op = "getconn"]
    /\ UNCHANGED <<api_cursor, requests>>
    /\ ApiUnchanged

\* connect(): self.cursor = self.conn.cursor(...).  With self.conn
\* cleared in between, the AttributeError leaves before_request: the
\* request is answered 500 and its teardown runs
ConnectCursor(h) ==
    /\ hpc[h] = "cursor"
    /\ IF api_conn = NoConn
       THEN /\ hpc' = [hpc EXCEPT ![h] = "teardown"]
            /\ ev' = [NoEv EXCEPT !.op = "cursor", !.raised = TRUE]
            /\ UNCHANGED api_cursor
       ELSE /\ api_cursor' = api_conn
            /\ hpc' = [hpc EXCEPT ![h] = "view"]
            /\ ev' = [NoEv EXCEPT !.op = "cursor"]
    /\ UNCHANGED <<api_conn, pool_used, requests>>
    /\ ApiUnchanged

\* get_searchable_comics(): get_all_comics() runs the query on
\* self.cursor; without a cursor the AttributeError is answered 500
GetSearchableComics(h) ==
    /\ hpc[h] = "view"
    /\ hpc' = [hpc EXCEPT ![h] = "teardown"]
    /\ ev' = IF api_cursor = NoConn
             THEN [NoEv EXCEPT !.op = "get_searchable_comics",
                               !.log = "error_getting_searchable_comics"]
             ELSE [NoEv EXCEPT !.op = "get_searchable_comics", !.success = TRUE]
    /\ UNCHANGED <<api_conn, api_cursor, pool_used, requests>>
    /\ ApiUnchanged

\* teardown_request calls db_manager.disconnect(), which tests self.conn
TeardownRequest(h) ==
    /\ hpc[h] = "teardown"
    /\ hpc' = [hpc EXCEPT ![h] = IF api_conn = NoConn THEN "idle" ELSE "putconn"]
    /\ ev' = [NoEv EXCEPT !.op = "teardown_request"]
    /\ UNCHANGED <<api_conn, api_cursor, pool_used, requests>>
    /\ ApiUnchanged

\* disconnect(), after the test: the cursor is closed, self.conn is put
\* back (putconn(None) raises PoolError, which is logged), and the finally
\* block clears conn and cursor
DisconnectPutconn(h) ==
    /\ hpc[h] = "putconn"
    /\ pool_used' = pool_used \ {api_conn}
    /\ api_conn' = NoConn
    /\ api_cursor' = NoConn
    /\ hpc' = [hpc EXCEPT ![h] = "idle"]
    /\ ev' = [NoEv EXCEPT !.op = "putconn", !.raised = (api_conn = NoConn)]
    /\ UNCHANGED requests
    /\ ApiUnchanged

NextApi ==
    \/ \E h \in Handlers : BeforeRequest(h)
    \/ \E h \in Handlers : ConnectGetconn(h)
    \/ \E h \in Handlers : ConnectCursor(h)
    \/ \E h \in Handlers : GetSearchableComics(h)
    \/ \E h \in Handlers : TeardownRequest(h)
    \/ \E h \in Handlers : DisconnectPutconn(h)

SpecApi == Init /\ [][NextApi]_vars

----------------------------------------------------------------------------
(* Properties *)

\* the message scrape_comic builds for a stored row, as a queue body
MessageFor(row) ==
    JsonDumps(Message(row.id, row.title, DictVal(JsonLoads(row.panel_urls))))

\* the bodies waiting in the queue or unacknowledged at a worker
PendingBodies ==
    {queue[k] : k \in 1..Len(queue)}
        \cup {inflight[w][1] : w \in {v \in Workers : inflight[v] # <<>>}}

\* this step is the callback of worker w on its delivery
HandleStep(w) ==
    /\ inflight[w] # <<>>
    /\ inflight'[w] = <<>>
    /\ ev'.op = "callback"

\* the messages that are not settled: ready in the queue or unacknowledged
UnsettledCount ==
    Len(queue) + Cardinality({w \in Workers : inflight[w] # <<>>})

UniqueUrls ==
    \A i, j \in 1..Len(rows) : rows[i].url = rows[j].url => i = j

\* C1: storage holds at most one row per source URL, and a crawl step whose
\* insert meets an already stored URL adds no row and changes no row.
C1_UniqueUrlInsertIgnored ==
    /\ []UniqueUrls
    /\ [][(ev'.op = "scrape" /\ ev'.insert = "conflict") => rows' = rows]_vars

\* C1 witness: a crawl step just tried to insert a URL that is stored.
C1_Witness ==
    /\ ev.op = "scrape"
    /\ ev.insert = "conflict"
    /\ ev.next \in StoredUrls(rows)

\* C2: under every fetch, extraction and insert failure the stored URLs are
\* a prefix of the archive chain: an issue is stored only if every earlier
\* issue of the chain is stored.
C2_StoredUrlsArePrefix ==
    \A u \in StoredUrls(rows) :
        \A v \in FirstComicUrl..u : v \in StoredUrls(rows)

\* C2 witness: two issues are stored and the last crawl step failed to store.
C2_Witness ==
    /\ Len(rows) >= 2
    /\ ev.op = "scrape"
    /\ ev.insert \in {"fetch_failed", "extract_failed", "error"}

\* C3 (as claimed): with the scraper running alone, analyzer_queue holds
\* exactly one Enrichment Message for every inserted issue, and none else.
C3_OneMessagePerInsertedIssue ==
    /\ \A i \in 1..Len(rows) :
         Cardinality({k \in 1..Len(queue) : queue[k] = MessageFor(rows[i])}) = 1
    /\ \A k \in 1..Len(queue) : ComicIdOf(queue[k]) \in StoredIds(rows)

\* C4: for a delivery whose body decodes, the handler calls basic_ack if and
\* only if analyze_comic reported success, and on failure it calls
\* basic_nack(requeue) and the message is back in the queue; an
\* acknowledged message is gone from the queue and from the worker.
C4_AckIffSuccess ==
    [][\A w \in Workers :
         (HandleStep(w) /\ ev'.decode # "body_not_json") =>
            /\ (ev'.calls[1] = "ack") <=> ev'.success
            /\ (\E k \in 1..Len(ev'.calls) : ev'.calls[k] = "ack") <=> ev'.success
            /\ ~ev'.success =>
                 /\ ev'.calls[1] = "nack_requeue"
                 /\ queue' = <<inflight[w][1]>> \o queue
            /\ (ev'.success /\ ~ev'.raised) => queue' = queue]_vars

\* C4 witness: a delivery was analysed with success and acknowledged.
C4_Witness ==
    /\ ev.op = "callback"
    /\ ev.decode = "ok"
    /\ ev.success
    /\ ev.calls = <<"ack">>
    /\ PendingBodies = {}
    /\ published > 0

\* C5 (as claimed): with the broker connection up, a delivery whose payload
\* cannot be decoded (body no JSON, or panel_urls a string that is no JSON)
\* is acknowledged and not requeued.
C5_UndecodableIsDropped ==
    [][\A w \in Workers :
         (HandleStep(w) /\ ~ev'.raised
             /\ ev'.decode \in {"body_not_json", "panel_urls_not_json"})
         => (ev'.calls = <<"ack">> /\ queue' = queue)]_vars

\* C6 (as claimed): an inserted issue whose enrichment failed has a retry
\* pending: a message for it waits in the queue or is held by a worker.
C6_FailedEnrichmentIsRetried ==
    \A i \in 1..Len(rows) :
        ~rows[i].processed =>
            \E b \in PendingBodies : ComicIdOf(b) = rows[i].id

\* C7 (as claimed): handling the message of an issue that is already
\* processed leaves its stored text and processed fields as they were.
C7_ReprocessingChangesNothing ==
    [][\A w \in Workers :
         HandleStep(w) =>
            \A i \in 1..Len(rows) :
                (rows[i].processed /\ inflight[w][1] = MessageFor(rows[i]))
                => (rows'[i].text = rows[i].text
                    /\ rows'[i].processed = rows[i].processed)]_vars

\* C8 (as claimed): once an issue has processed = true, no later step writes
\* its text and processed fields again (no update_comic on its row succeeds).
C8_WrittenOnce ==
    [][\A w \in Workers :
         HandleStep(w) =>
            \A i \in 1..Len(rows) :
                (rows[i].processed /\ ComicIdOf(inflight[w][1]) = rows[i].id)
                => ~ev'.success]_vars

\* C9 (as claimed): when fetching the latest issue's page fails, the cursor
\* resolver's result differs from "no next issue" and the cycle does not end
\* as caught up.
C9_FetchFailureDistinct ==
    ev.resolve = "fetch_failed" =>
        /\ ev.next # NoUrl
        /\ ev.log # "cycle_complete_no_new_comics"

\* C10 (as claimed): a failure raised inside a running crawl cycle aborts
\* only that cycle: the scraper is back in Idle and the process lives on.
C10_FailureAbortsOnlyCycle ==
    ev.log = "error_during_scraping_cycle" => pc = "idle"

\* C11: a crawl cycle inserts at most BatchLimit = 2 rows, one per pass and
\* only while Running; the step that inserts the second row ends the cycle
\* in Idle without error; a pass whose resolver finds no "newer" link on the
\* latest stored page ends the cycle in Idle without error, having fetched
\* and inserted nothing more; nothing is inserted while Idle.
C11_BatchLimitAndCaughtUp ==
    /\ [](batch <= BatchLimit)
    /\ [][Len(rows') # Len(rows) =>
            /\ pc = "running"
            /\ Len(rows') = Len(rows) + 1
            /\ batch' = batch + 1]_vars
    /\ [][(batch' = BatchLimit /\ batch < BatchLimit) =>
            /\ pc' = "idle"
            /\ ev'.log = "scraping_cycle_completed"]_vars
    /\ [][(ev'.op = "resolve" /\ ev'.resolve = "no_newer_link") =>
            /\ pc = "running"
            /\ pc' = "idle"
            /\ rows' = rows
            /\ ev'.next = NoUrl
            /\ ev'.insert = "-"
            /\ ev'.log = "cycle_complete_no_new_comics"]_vars

\* C11 witness: a cycle inserted the last issue of the chain and then ended
\* because the page of that issue has no "newer" link.
C11_Witness ==
    /\ ev.op = "resolve"
    /\ ev.resolve = "no_newer_link"
    /\ pc = "idle"
    /\ batch = 1
    /\ Len(rows) = ChainLen

\* C12: a pass of the crawl cycle that finds the table empty resolves the
\* next URL to the hard-coded first-issue URL, and the resolver fetches no
\* page for it.
C12_BootstrapWithoutFetch ==
    [][(rows = <<>> /\ ev'.op \in {"resolve", "scrape"}) =>
          /\ ev'.resolve = "bootstrap"
          /\ ev'.next = FirstComicUrl
          /\ ev'.probe = NoUrl]_vars

\* C12 witness: the first issue was just inserted into the empty table from
\* the bootstrap URL.
C12_Witness ==
    /\ ev.op = "scrape"
    /\ ev.resolve = "bootstrap"
    /\ ev.next = FirstComicUrl
    /\ ev.insert = "inserted"
    /\ Len(rows) = 1

\* the panel containers extract_panel_urls finds on the page
Containers == IF html.comic_area THEN html.panels ELSE <<>>

\* C13 (as claimed): the extracted Panel Location Set has num_panels equal
\* to the number of panel containers of the page and a key panel<i> for
\* exactly every i in 1..num_panels; a panel without image or without
\* resolvable image URL has the empty string at its index.
C13_NoGapInPanelSet ==
    panels_data # <<>> =>
        /\ panels_data[1].num_panels = Len(Containers)
        /\ DOMAIN panels_data[1].urls = 1..panels_data[1].num_panels
        /\ \A i \in 1..Len(Containers) :
              (Containers[i].img = <<>>
                 \/ PanelUrl(Containers[i].img[1]) = EmptyUrl)
              => panels_data[1].urls[i] = EmptyUrl

\* the URLs of the srcset entries of img whose descriptor is 2x
TwoXUrls(img) ==
    IF img.srcset = <<>> THEN {}
    ELSE {e[1] : e \in {img.srcset[1][k] : k \in
                          {j \in 1..Len(img.srcset[1]) :
                              Len(img.srcset[1][j]) = 2
                              /\ img.srcset[1][j][2] = "2x"}}}

\* C14: for every panel image of a page, if its srcset has an entry tagged
\* 2x the extracted URL is that entry's URL (not a 1x entry's, not the src);
\* if the srcset has no 2x entry or there is no srcset, the extracted URL is
\* the src attribute.
C14_TwoXPreferred ==
    panels_data # <<>> =>
        \A i \in 1..Len(Containers) :
            Containers[i].img # <<>> =>
                LET img == Containers[i].img[1]
                    urls == panels_data[1].urls
                IN  /\ TwoXUrls(img) # {} =>
                          /\ i \in DOMAIN urls
                          /\ urls[i] \in TwoXUrls(img)
                    /\ (TwoXUrls(img) = {} /\ img.src # <<>>) =>
                          /\ i \in DOMAIN urls
                          /\ urls[i] = img.src[1]

\* C14 witness: a panel whose <img> has src, a 1x and then a 2x srcset entry was
\* extracted to the 2x URL, next to a panel without srcset extracted to src.
C14_Witness ==
    /\ panels_data # <<>>
    /\ Len(Containers) = 2
    /\ Containers[1].img =
          <<Img(<< << <<ImageUrl(0, 0, "1x"), "1x">>, <<ImageUrl(0, 0, "2x"), "2x">> >> >>,
                <<ImageUrl(0, 0, "src")>>)>>
    /\ Containers[2].img = <<Img(<<>>, <<ImageUrl(0, 0, "src")>>)>>
    /\ panels_data[1].urls[1] = ImageUrl(0, 0, "2x")
    /\ panels_data[1].urls[2] = ImageUrl(0, 0, "src")

\* the Panel Location Set of a queue body whose payload decodes
PanelUrlsOf(body) ==
    LET pu == JsonLoads(body).panel_urls
    IN  IF pu.isstr THEN JsonLoads(pu.text) ELSE pu.dict

\* C15: the worker handling a message with num_panels = N always calls the
\* storage update, whatever the downloads did, and succeeds exactly when the
\* update did; the text payload it writes has num_panels = N and an entry for
\* exactly the indices 1..N, the empty string for every panel whose URL is
\* missing or empty or whose image download failed.
C15_CompleteTextPayload ==
    [][\A w \in Workers :
         (HandleStep(w) /\ ev'.decode = "ok") =>
            LET body == inflight[w][1]
                pu == PanelUrlsOf(body)
            IN  /\ ev'.update \in {"updated", "no_row", "error"}
                /\ ev'.success <=> ev'.update = "updated"
                /\ ev'.update = "updated" =>
                      \E i \in 1..Len(rows') :
                         /\ rows'[i].id = ComicIdOf(body)
                         /\ rows'[i].processed
                         /\ rows'[i].text # NullText
                         /\ LET text_data == JsonLoads(rows'[i].text[1])
                            IN  /\ text_data.num_panels = pu.num_panels
                                /\ DOMAIN text_data.panels = 1..pu.num_panels
                                /\ \A k \in 1..pu.num_panels :
                                      (\/ k \notin DOMAIN pu.urls
                                       \/ pu.urls[k] = EmptyUrl
                                       \/ k \in ev'.download_failed)
                                      => text_data.panels[k] = EmptyText]_vars

\* C15 witness: a message of two panels, one with an empty URL and one whose
\* download failed, was handled with success and its row holds a payload of
\* two entries.
C15_Witness ==
    /\ ev.op = "callback"
    /\ ev.download_failed = {1}
    /\ ev.update = "updated"
    /\ ev.success
    /\ \E i \in 1..Len(rows) :
          /\ rows[i].id = ev.id
          /\ rows[i].processed
          /\ rows[i].text # NullText
          /\ JsonLoads(rows[i].text[1]).num_panels = 2
          /\ DOMAIN JsonLoads(rows[i].text[1]).panels = {1, 2}
          /\ JsonLoads(rows[i].text[1]).panels[1] = EmptyText

\* the Panel Location Sets publishers encode
PublishedPanelUrls == {ExtractPanelUrls(id) : id \in MessageIds}

\* C16: a worker holding a message whose panel_urls is the JSON text of a
\* Panel Location Set d does, for every download, OCR and storage outcome,
\* what it does on the same message with panel_urls = d: same stored rows
\* (text payload and processed flag) and same success result; and every
\* handling of such a message is one of those.
C16_StringFormSameAsObject ==
    /\ [](\A w \in Workers : \A d \in PublishedPanelUrls :
            (/\ inflight[w] # <<>>
             /\ PanelUrlsForm(inflight[w][1]) = "str"
             /\ JsonLoads(inflight[w][1]).panel_urls.text = JsonDumps(d))
            => LET m == JsonLoads(inflight[w][1])
                   obj == Message(m.comic_id, m.title, DictVal(d))
               IN  \A outcome \in [ImagePanels(d) -> PanelOutcomes],
                      upd \in DbOutcomes :
                     /\ AnalyzeComic(rows, m, outcome, upd).rows
                          = AnalyzeComic(rows, obj, outcome, upd).rows
                     /\ AnalyzeComic(rows, m, outcome, upd).success
                          = AnalyzeComic(rows, obj, outcome, upd).success)
    /\ [][\A w \in Workers : \A d \in PublishedPanelUrls :
            (/\ HandleStep(w)
             /\ PanelUrlsForm(inflight[w][1]) = "str"
             /\ JsonLoads(inflight[w][1]).panel_urls.text = JsonDumps(d))
            => LET m == JsonLoads(inflight[w][1])
                   obj == Message(m.comic_id, m.title, DictVal(d))
               IN  \E outcome \in [ImagePanels(d) -> PanelOutcomes],
                      upd \in DbOutcomes :
                     /\ rows' = AnalyzeComic(rows, obj, outcome, upd).rows
                     /\ ev'.success = AnalyzeComic(rows, obj, outcome, upd).success
                     /\ ev'.download_failed =
                          {i \in DOMAIN outcome : outcome[i] = "download_failed"}]_vars

\* C16 witness: a message with panel_urls as JSON text was handled with
\* success and the row it names holds its text payload.
C16_Witness ==
    /\ ev.op = "callback"
    /\ ev.form = "str"
    /\ ev.decode = "ok"
    /\ ev.success
    /\ \E i \in 1..Len(rows) :
          /\ rows[i].id = ev.id
          /\ rows[i].processed
          /\ rows[i].text # NullText

\* C17: on the analyzer side a row's processed flag turns true only in a
\* callback step whose update_comic on that row's id succeeded; the worker
\* reports success exactly when update_comic succeeded; a failed update
\* changes no row (processed stays as it was) and is reported as failure,
\* which the callback answers with basic_nack.
C17_ProcessedOnlyOnUpdate ==
    /\ [][\A i \in 1..Len(rows) :
            (~rows[i].processed /\ rows'[i].processed) =>
               /\ ev'.op = "callback"
               /\ ev'.update = "updated"
               /\ ev'.success
               /\ ev'.id = rows[i].id]_vars
    /\ [][\A w \in Workers :
            (HandleStep(w) /\ ev'.decode = "ok") =>
               /\ ev'.success <=> ev'.update = "updated"
               /\ ev'.update # "updated" =>
                     /\ rows' = rows
                     /\ ~ev'.success
                     /\ ev'.calls[1] = "nack_requeue"]_vars

\* C17 witness: the update of a stored, unprocessed issue failed with a
\* storage error; the issue is still unprocessed and the message was nacked.
C17_Witness ==
    /\ ev.op = "callback"
    /\ ev.update = "error"
    /\ ~ev.success
    /\ ev.calls = <<"nack_requeue">>
    /\ \E i \in 1..Len(rows) : rows[i].id = ev.id /\ ~rows[i].processed

\* the fields of a row update_comic has no SET clause for
KeptFields(row) ==
    [id |-> row.id, title |-> row.title, url |-> row.url,
     panel_urls |-> row.panel_urls]

\* C18: update_comic(comic_id, updates) returns without raising while the
\* connection works, keeps the number of rows, changes no row with another
\* id and no field but text and processed (each only when named in
\* updates, whatever other keys updates holds), changes at most one row,
\* and when no row has the id it returns False and changes nothing.
C18_UpdateFrame ==
    [][ev'.op = "update_comic" =>
         /\ Len(rows') = Len(rows)
         /\ \A i \in 1..Len(rows) :
               /\ KeptFields(rows'[i]) = KeptFields(rows[i])
               /\ rows[i].id # ev'.id => rows'[i] = rows[i]
               /\ ev'.updates.text = <<>> => rows'[i].text = rows[i].text
               /\ ev'.updates.processed = <<>> =>
                     rows'[i].processed = rows[i].processed
         /\ Cardinality({i \in 1..Len(rows) : rows'[i] # rows[i]}) <= 1
         /\ ev'.id \notin StoredIds(rows) => (~ev'.success /\ rows' = rows)
         /\ (ev'.updates.other /\ ev'.update # "error") => ~ev'.raised
         /\ (ev'.update = "updated") =>
               \E i \in 1..Len(rows) :
                  /\ rows[i].id = ev'.id
                  /\ ev'.updates.text # <<>> =>
                        rows'[i].text = <<JsonDumps(ev'.updates.text[1])>>
                  /\ ev'.updates.processed # <<>> =>
                        rows'[i].processed = ev'.updates.processed[1]]_vars

\* C18 witness: of two stored rows one was just updated through a dict
\* holding text and an unknown key: its text is set, its processed flag and
\* the other row are as inserted.
C18_Witness ==
    /\ ev.op = "update_comic"
    /\ ev.update = "updated"
    /\ ev.updates = Updates(<<SomeText>>, <<>>, TRUE)
    /\ Len(rows) = 2
    /\ \E i, j \in 1..2 :
          /\ rows[i].id = ev.id
          /\ rows[i].text = <<JsonDumps(SomeText)>>
          /\ ~rows[i].processed
          /\ j # i
          /\ rows[j].text = NullText

\* C19 (as claimed): the value insert_comic returns for a URL that is
\* already stored differs from the value it returns when the insert fails
\* with a storage error.
C19_ConflictDistinctFromFailure ==
    (ev.op = "insert_comic" /\ ev.insert = "conflict") =>
        ev.id # InsertComic(rows, nextId, ExtractComicMetadata(ev.next), "error").id

\* C20 (as claimed): an insert_comic or update_comic call that meets a
\* storage error returns its failure value (None, False) to the caller and
\* leaves the stored rows exactly as they were.
C20_FailureRolledBackAndReturned ==
    [][(/\ ev'.op \in {"insert_comic", "update_comic"}
        /\ (ev'.insert = "error" \/ ev'.update = "error")) =>
          /\ rows' = rows
          /\ ~ev'.raised
          /\ ev'.op = "insert_comic" => ev'.id = NoId
          /\ ev'.op = "update_comic" => ~ev'.success]_vars

\* C21 (as claimed): extract_comic_metadata on a page whose date label is
\* absent, or holds text that is not a date in the format "Month DD, YYYY",
\* returns an Issue record with a null publication date, never a failure.
C21_BadDateGivesNullDate ==
    (/\ extracted.called
     /\ (html.date = <<>> \/ Strptime(html.date[1]) = <<>>))
    => /\ extracted.value # <<>>
       /\ extracted.value[1].publication_date = <<>>

\* C22 (as claimed): filter_copyright_text applied to a text that already
\* went through it gives that text back.
C22_FilterIdempotent ==
    [][(ev.op = "filter_copyright_text" /\ ev'.op = "filter_copyright_text")
         => cleaned_text' = cleaned_text]_vars

\* C23: a worker never holds more than one unacknowledged delivery; it is
\* handed a message only while it holds none, and a delivery moves the head
\* of the queue to that one worker (no message is at two workers at once).
C23_OneUnacknowledgedPerWorker ==
    /\ [](\A w \in Workers : Len(inflight[w]) <= 1)
    /\ [][\A w \in Workers :
            (inflight'[w] # inflight[w] /\ inflight'[w] # <<>>)
                => /\ inflight[w] = <<>>
                   /\ queue # <<>>
                   /\ inflight'[w] = <<Head(queue)>>
                   /\ queue' = Tail(queue)
                   /\ \A v \in Workers \ {w} : inflight'[v] = inflight[v]]_vars

\* C23 witness: a worker holds an unacknowledged delivery while another
\* message waits in the queue and no other consumer is left to take it.
C23_Witness ==
    \E w \in Workers :
        /\ alive[w]
        /\ inflight[w] # <<>>
        /\ queue # <<>>
        /\ \A v \in Workers \ {w} : ~alive[v]

\* C24 (as claimed): a unit of work takes its storage connection when it
\* starts and gives it back when it ends, so none is held between two crawl
\* steps, and none is held by a process while its page fetch or image
\* download runs.
C24_ConnectionPerUnitOfWork ==
    /\ [](pc = "running" => ~db_conn["scraper"])
    /\ [][(\/ ev'.op = "scrape"
           \/ ev'.op = "resolve" /\ ev'.probe # NoUrl)
             => ~db_conn["scraper"]]_vars
    /\ [][\A w \in Workers :
            (HandleStep(w) /\ BodyImagePanels(inflight[w][1]) # {})
                => ~db_conn[w]]_vars

\* C27 (as claimed): a crawl step resolves the next issue to the bootstrap
\* URL only when the table holds no row, also when get_latest_comic fails.
C27_BootstrapOnlyOnEmptyTable ==
    [][(ev'.op \in {"resolve", "scrape"} /\ ev'.resolve = "bootstrap")
         => rows = <<>>]_vars

\* C28 (as claimed): every run of the callback issues exactly one
\* settlement call for its delivery, basic_ack or basic_nack(requeue),
\* also when an acknowledgment call raises.
C28_SettledExactlyOnce ==
    [][\A w \in Workers : HandleStep(w) => Len(ev'.calls) = 1]_vars

\* C25 (as claimed), part 1: once stop_consuming has run, the worker gets
\* no further delivery.
C25_NoDeliveryAfterStop ==
    [][\A w \in Workers :
         (inflight'[w] # inflight[w] /\ inflight'[w] # <<>>)
             => wpc[w] \in {"consuming", "interrupted"}]_vars

\* C25 (as claimed), part 2: the shutdown steps settle no message (what
\* was in flight stays unsettled: it is neither lost nor acknowledged),
\* and a worker that has exited holds no delivery.
C25_InFlightReleased ==
    /\ [][ev'.op \in {"interrupt", "stop_consuming", "connection_close",
                       "disconnect"}
            => UnsettledCount' = UnsettledCount]_vars
    /\ [](\A w \in Workers : wpc[w] = "exited" => inflight[w] = <<>>)

\* C25 (as claimed), part 3: a worker that has exited after an interrupt
\* has given its storage connection back to the pool.
C25_ConnectionReleasedBeforeExit ==
    \A w \in Workers : wpc[w] = "exited" => ~db_conn[w]

C26_BoundedStartupRetries ==
    /\ [](\A w \in Workers : retries[w] <= MaxRetries)
    /\ [][\A w \in Workers :
            /\ retries'[w] > retries[w]
                   => /\ retries[w] < MaxRetries
                      /\ retries'[w] = retries[w] + 1
                      /\ wpc[w] = "connecting" /\ wpc'[w] = "connecting"
            /\ (wpc[w] = "connecting" /\ wpc'[w] = "consuming")
                   => /\ retries[w] < MaxRetries
                      /\ ev'.log = "connected"
            /\ (wpc[w] = "connecting" /\ retries[w] = MaxRetries
                                      /\ wpc'[w] # wpc[w])
                   => /\ wpc'[w] = "exited"
                      /\ ev'.log = "failed_to_connect"
            /\ wpc[w] = "exited" => wpc'[w] = "exited"
            /\ wpc[w] # "connecting" => wpc'[w] # "connecting"]_vars
    /\ [](\A w \in Workers :
            wpc[w] \in {"connecting", "exited"}
                => ~alive[w] /\ inflight[w] = <<>>)
    /\ \A w \in Workers : <>(wpc[w] # "connecting")

\* C26 witness: one worker has given up after 30 failed attempts and
\* never consumed, the other connected after failed attempts and holds the
\* message.
C26_Witness ==
    \E w, v \in Workers :
        /\ wpc[w] = "exited"
        /\ retries[w] = MaxRetries
        /\ ev.log = "failed_to_connect"
        /\ wpc[v] = "consuming"
        /\ inflight[v] # <<>>

\* C29 (as claimed): when fetch, extraction and insert do not fail for
\* ever, the crawl cycles eventually store the whole chain in chain order,
\* and from then on no pass scrapes an issue: every cycle ends with "no
\* next issue".
C29_EventuallyWholeChain ==
    <>[](WholeChainStored /\ ev.op # "scrape")

\* C30 (as claimed): with overlapping requests on the shared
\* DatabaseManager, a handler that is past its before_request and before
\* its teardown has a connection and a cursor, and once all requests are
\* over every connection taken from the pool has been put back.
C30_HandlersKeepTheirConnection ==
    /\ \A h \in Handlers :
         hpc[h] = "view" => (api_conn # NoConn /\ api_cursor # NoConn)
    /\ (\A h \in Handlers : hpc[h] = "idle") => pool_used = {}

====
